---- MODULE Spec2Model ----
(***************************************************************************)
(* ResumeForge: the conversational edit pipeline.                          *)
(*                                                                         *)
(*   - the chat route  (frontend/app/api/chat/route.ts, POST)              *)
(*   - the Chat panel  (frontend/components/chat.tsx, handleSubmit and     *)
(*     handleRetry) inside EditorContent (the Code | Chat tabs)            *)
(*                                                                         *)
(* A JavaScript string is a sequence of tokens.  A token is one character  *)
(* ("{", "\\", a quote, a blank) or a word of letters that no operation of *)
(* the code ever splits, except that a backslash in front of a word acts   *)
(* on the first letter of the word (First and Rest below).                 *)
(***************************************************************************)
EXTENDS Integers, Sequences, FiniteSets, TLC

\* ------------------------------------------------------------------------
\* Characters
\* ------------------------------------------------------------------------
BSl == "\\"
Q == "\""
Apos == "'"
Sp == " "
NL == "\n"
\* The opening marker of a fenced code block with its json tag (three
\* backquotes and the word json) and the bare marker (three backquotes).
FenceJson == "<fence>json"
Fence == "<fence>"

\* What trim(), \s and JSON.parse treat as white space.
WhiteSpace == {Sp, NL}

\* Characters below U+0020, which JSON.parse rejects unescaped inside a string
\* ("<bs>", "<ff>", "<cr>", "<tab>" are what the escapes \b \f \r \t decode to).
ControlChars == {NL, "<bs>", "<ff>", "<cr>", "<tab>"}

\* The first letter of a token and the rest of it.
First(w) ==
    CASE w = "documentclass" -> "d"
      [] w = "begin" -> "b"
      [] w = "end" -> "e"
      [] w = "textbf" -> "t"
      [] w = "true" -> "t"
      [] w = "false" -> "f"
      [] w = "null" -> "n"
      [] w = "usepackage" -> "u"
      [] w = "section" -> "s"
      [] w = "n" -> "n"
      [] OTHER -> w

Rest(w) ==
    CASE w = "documentclass" -> <<"ocumentclass">>
      [] w = "begin" -> <<"egin">>
      [] w = "end" -> <<"nd">>
      [] w = "textbf" -> <<"extbf">>
      [] w = "true" -> <<"rue">>
      [] w = "false" -> <<"alse">>
      [] w = "null" -> <<"ull">>
      [] w = "usepackage" -> <<"sepackage">>
      [] w = "section" -> <<"ection">>
      [] OTHER -> <<>>

\* ------------------------------------------------------------------------
\* String operations of the JavaScript runtime
\* ------------------------------------------------------------------------
Min(S) == CHOOSE x \in S : \A y \in S : x <= y
Max(S) == CHOOSE x \in S : \A y \in S : x >= y

\* s.substring(a - 1, b): the tokens a..b (1-based, inclusive).
Slice(s, a, b) == IF a > b THEN <<>> ELSE SubSeq(s, a, b)

\* First index >= i that is not white space (Len(s) + 1 when there is none).
SkipWs(s, i) ==
    Min({j \in i..(Len(s) + 1) : j = Len(s) + 1 \/ s[j] \notin WhiteSpace})

\* Last index that is not white space (0 when there is none).
LastNonWs(s) ==
    Max({j \in 0..Len(s) : j = 0 \/ s[j] \notin WhiteSpace})

\* String.prototype.trim
Trim(s) == Slice(s, SkipWs(s, 1), LastNonWs(s))

\* indexOf / lastIndexOf of one character; 0 stands for the -1 of JavaScript.
IndexOf(s, c) ==
    LET I == {j \in 1..Len(s) : s[j] = c} IN IF I = {} THEN 0 ELSE Min(I)

LastIndexOf(s, c) ==
    LET I == {j \in 1..Len(s) : s[j] = c} IN IF I = {} THEN 0 ELSE Max(I)

\* ------------------------------------------------------------------------
\* JavaScript values: undefined, null, booleans, numbers, strings, objects
\* and arrays (o holds the members, in order, as [k |-> key, v |-> value]).
\* ------------------------------------------------------------------------
Undef == [t |-> "undef", s |-> <<>>, b |-> FALSE, o |-> <<>>]
JNull == [t |-> "null", s |-> <<>>, b |-> FALSE, o |-> <<>>]
JBool(x) == [t |-> "bool", s |-> <<>>, b |-> x, o |-> <<>>]
JNum(x) == [t |-> "num", s |-> <<x>>, b |-> FALSE, o |-> <<>>]
JStr(x) == [t |-> "str", s |-> x, b |-> FALSE, o |-> <<>>]
JObj(m) == [t |-> "obj", s |-> <<>>, b |-> FALSE, o |-> m]
JArr(m) == [t |-> "arr", s |-> <<>>, b |-> FALSE, o |-> m]

\* ToBoolean
Truthy(v) ==
    CASE v.t = "undef" -> FALSE
      [] v.t = "null" -> FALSE
      [] v.t = "bool" -> v.b
      [] v.t = "num" -> v.s # <<"0">>
      [] v.t = "str" -> v.s # <<>>
      [] OTHER -> TRUE

\* v[key] for a value that is neither null nor undefined: the last member of
\* that name of an object, undefined otherwise.
Get(v, key) ==
    LET I == {j \in 1..Len(v.o) : v.o[j].k = key}
    IN  IF v.t # "obj" \/ I = {} THEN Undef ELSE v.o[Max(I)].v

\* ------------------------------------------------------------------------
\* JSON.parse
\* ------------------------------------------------------------------------
PFail == [ok |-> FALSE, val |-> Undef, next |-> 0]
POk(v, n) == [ok |-> TRUE, val |-> v, next |-> n]

\* One escape sequence: what the character c after a backslash decodes to,
\* <<>> when \c is no JSON escape.  \u needs four hex digits, which no word of
\* this alphabet provides.
Unescape(c) ==
    CASE c = BSl -> <<BSl>>
      [] c = Q -> <<Q>>
      [] c = "/" -> <<"/">>
      [] First(c) = "b" -> <<"<bs>">> \o Rest(c)
      [] First(c) = "f" -> <<"<ff>">> \o Rest(c)
      [] First(c) = "n" -> <<NL>> \o Rest(c)
      [] First(c) = "r" -> <<"<cr>">> \o Rest(c)
      [] First(c) = "t" -> <<"<tab>">> \o Rest(c)
      [] OTHER -> <<>>

RECURSIVE ParseChars(_, _, _)
\* The characters of a string literal from position i (after the opening
\* quote) up to the closing quote.
ParseChars(s, i, acc) ==
    IF i > Len(s) THEN PFail
    ELSE IF s[i] = Q THEN POk(JStr(acc), i + 1)
    ELSE IF s[i] = BSl THEN
        IF i + 1 > Len(s) \/ Unescape(s[i + 1]) = <<>> THEN PFail
        ELSE ParseChars(s, i + 2, acc \o Unescape(s[i + 1]))
    ELSE IF s[i] \in ControlChars THEN PFail
    ELSE ParseChars(s, i + 1, Append(acc, s[i]))

RECURSIVE ParseValue(_, _)
RECURSIVE ParseMembers(_, _, _)
RECURSIVE ParseElements(_, _, _)

\* The members of an object from position i (white space skipped), after "{"
\* or after a comma.
ParseMembers(s, i, acc) ==
    IF i > Len(s) \/ s[i] # Q THEN PFail
    ELSE LET key == ParseChars(s, i + 1, <<>>) IN
        IF ~key.ok THEN PFail
        ELSE LET c == SkipWs(s, key.next) IN
            IF c > Len(s) \/ s[c] # ":" THEN PFail
            ELSE LET v == ParseValue(s, c + 1) IN
                IF ~v.ok THEN PFail
                ELSE LET m == SkipWs(s, v.next)
                         mem == Append(acc, [k |-> key.val.s, v |-> v.val])
                     IN  IF m > Len(s) THEN PFail
                         ELSE IF s[m] = "}" THEN POk(JObj(mem), m + 1)
                         ELSE IF s[m] = "," THEN ParseMembers(s, SkipWs(s, m + 1), mem)
                         ELSE PFail

\* The elements of an array from position i (white space skipped).
ParseElements(s, i, acc) ==
    LET v == ParseValue(s, i) IN
        IF ~v.ok THEN PFail
        ELSE LET m == SkipWs(s, v.next)
                 els == Append(acc, [k |-> <<>>, v |-> v.val])
             IN  IF m > Len(s) THEN PFail
                 ELSE IF s[m] = "]" THEN POk(JArr(els), m + 1)
                 ELSE IF s[m] = "," THEN ParseElements(s, SkipWs(s, m + 1), els)
                 ELSE PFail

\* One JSON value from position i on, leading white space skipped.
ParseValue(s, i) ==
    LET j == SkipWs(s, i) IN
        IF j > Len(s) THEN PFail
        ELSE IF s[j] = "{" THEN
            LET k == SkipWs(s, j + 1) IN
                IF k <= Len(s) /\ s[k] = "}" THEN POk(JObj(<<>>), k + 1)
                ELSE ParseMembers(s, k, <<>>)
        ELSE IF s[j] = "[" THEN
            LET k == SkipWs(s, j + 1) IN
                IF k <= Len(s) /\ s[k] = "]" THEN POk(JArr(<<>>), k + 1)
                ELSE ParseElements(s, k, <<>>)
        ELSE IF s[j] = Q THEN ParseChars(s, j + 1, <<>>)
        ELSE IF s[j] = "true" THEN POk(JBool(TRUE), j + 1)
        ELSE IF s[j] = "false" THEN POk(JBool(FALSE), j + 1)
        ELSE IF s[j] = "null" THEN POk(JNull, j + 1)
        ELSE IF s[j] \in {"0", "1"} THEN POk(JNum(s[j]), j + 1)
        ELSE PFail

\* JSON.parse(s): ok = FALSE stands for the SyntaxError it throws.
JSONparse(s) ==
    LET r == ParseValue(s, 1) IN
        IF r.ok /\ SkipWs(s, r.next) = Len(s) + 1
        THEN [ok |-> TRUE, val |-> r.val]
        ELSE [ok |-> FALSE, val |-> Undef]

\* ------------------------------------------------------------------------
\* LaTeX documents
\* ------------------------------------------------------------------------
\* The three structural anchors of a compilable document.
DocClassAt(d, i) == i + 1 <= Len(d) /\ d[i] = BSl /\ d[i + 1] = "documentclass"
BeginDocAt(d, i) ==
    i + 4 <= Len(d) /\ SubSeq(d, i, i + 4) = <<BSl, "begin", "{", "document", "}">>
EndDocAt(d, i) ==
    i + 4 <= Len(d) /\ SubSeq(d, i, i + 4) = <<BSl, "end", "{", "document", "}">>

\* The default document of a new editing session.
DocSeed ==
    <<BSl, "documentclass", "{", "article", "}",
      BSl, "begin", "{", "document", "}", "Hello",
      BSl, "end", "{", "document", "}">>
\* The same document followed by a line break.
DocSeedNl == DocSeed \o <<NL>>
\* A complete document with another body.
DocEdited ==
    <<BSl, "documentclass", "{", "article", "}",
      BSl, "begin", "{", "document", "}", "Hi",
      BSl, "end", "{", "document", "}">>
\* A body fragment: a section and nothing else.
DocFragment == <<BSl, "section", "{", "Skills", "}", "Hi">>
\* A body without its document class.
DocNoClass ==
    <<BSl, "begin", "{", "document", "}", "Hi", BSl, "end", "{", "document", "}">>

\* A complete document that loads a package.
DocPackage ==
    <<BSl, "documentclass", "{", "article", "}",
      BSl, "usepackage", "{", "geometry", "}",
      BSl, "begin", "{", "document", "}", "Hi",
      BSl, "end", "{", "document", "}">>

Docs == {DocSeed, DocSeedNl, DocEdited, DocFragment, DocNoClass, DocPackage}

\* ------------------------------------------------------------------------
\* The chat route: POST of frontend/app/api/chat/route.ts
\* ------------------------------------------------------------------------
KExplanation == <<"explanation">>
KModifiedLatex == <<"modifiedLatex">>
KHasChanges == <<"hasChanges">>

MsgRephrase == "I couldn't process that request properly. Please try rephrasing."

\* cleanedText: text.trim(), then the first fence-with-json marker and the
\* white space after it removed, then a fence marker at the very end removed.
StripFenceJson(s) ==
    LET i == IndexOf(s, FenceJson) IN
        IF i = 0 THEN s
        ELSE Slice(s, 1, i - 1) \o Slice(s, SkipWs(s, i + 1), Len(s))

StripFenceEnd(s) ==
    LET I == {j \in 1..Len(s) : s[j] = Fence /\ SkipWs(s, j + 1) = Len(s) + 1} IN
        IF I = {} THEN s ELSE Slice(s, 1, Min(I) - 1)

CleanText(text) == StripFenceEnd(StripFenceJson(Trim(text)))

\* jsonString: from the first "{" to the last "}", empty when there is none.
JsonString(cleaned) ==
    LET jsonStart == IndexOf(cleaned, "{")
        jsonEnd == LastIndexOf(cleaned, "}")
    IN  IF jsonStart # 0 /\ jsonEnd # 0 /\ jsonEnd > jsonStart
        THEN Slice(cleaned, jsonStart, jsonEnd)
        ELSE <<>>

\* safeJson: every backslash that is not followed by one of \ " ' b n r t f u
\* is doubled; each backslash is looked at on its own.
KeptAfterBackslash == {BSl, Q, Apos, "b", "n", "r", "t", "f", "u"}

RECURSIVE SafeJson(_)
SafeJson(s) ==
    IF s = <<>> THEN <<>>
    ELSE IF Head(s) = BSl /\ (Len(s) = 1 \/ First(s[2]) \notin KeptAfterBackslash)
         THEN <<BSl, BSl>> \o SafeJson(Tail(s))
         ELSE <<Head(s)>> \o SafeJson(Tail(s))

\* A response body of the route.
Body(success, explanation, modifiedLatex, response, error) ==
    [success |-> success, explanation |-> explanation,
     modifiedLatex |-> modifiedLatex, response |-> response, error |-> error,
     mode |-> Undef]

Reply(status, body) == [status |-> status, data |-> body]

\* hasActualChanges, and whether evaluating it throws (.trim of a value that
\* is not a string).
TrimThrows(ml, latexContent) ==
    Truthy(ml) /\ ml # latexContent /\ ml.t # "str"

HasActualChanges(ml, latexContent) ==
    Truthy(ml) /\ ml # latexContent /\ Trim(ml.s) # Trim(latexContent.s)

\* What the route decides for a record parsed from the brace slice, directly
\* or after the backslash repair: it returns, it throws, or (no truthy
\* explanation) it falls through to the parse of the whole text.
SliceDecision(parsedResponse, latexContent) ==
    LET explanation == Get(parsedResponse, KExplanation)
        ml == Get(parsedResponse, KModifiedLatex)
        hc == Get(parsedResponse, KHasChanges)
        finalHasChanges == HasActualChanges(ml, latexContent) \/ hc = JBool(TRUE)
    IN  IF ~Truthy(explanation) THEN [kind |-> "fallthrough", body |-> Undef]
        ELSE IF TrimThrows(ml, latexContent) THEN [kind |-> "throw", body |-> Undef]
        ELSE [kind |-> "return",
              body |-> Body(JBool(TRUE), explanation,
                            IF finalHasChanges THEN ml ELSE JNull,
                            explanation, Undef)]

\* What the route decides for the whole cleaned text parsed as JSON.
DirectDecision(directParse) ==
    IF directParse.t \in {"null", "undef"} THEN [kind |-> "throw", body |-> Undef]
    ELSE [kind |-> "return",
          body |-> Body(JBool(TRUE), Get(directParse, KExplanation),
                        IF Truthy(Get(directParse, KHasChanges))
                        THEN Get(directParse, KModifiedLatex) ELSE JNull,
                        Get(directParse, KExplanation), Undef)]

\* The agent branch handing the raw text back as the document, whatever it
\* holds.
AgentExtractRawText(text, latexContent) ==
    [path |-> "fallback", rec |-> Undef,
     body |-> Body(JBool(TRUE), JStr(<<MsgRephrase>>), JStr(text), JStr(text), Undef)]

\* The agent branch: which step produced the response (path), the record it
\* was produced from (rec) and the response body.
AgentExtract(text, latexContent) ==
    LET cleanedText == CleanText(text)
        jsonString == JsonString(cleanedText)
        p1 == JSONparse(jsonString)
        d1 == SliceDecision(p1.val, latexContent)
        p2 == JSONparse(SafeJson(jsonString))
        d2 == SliceDecision(p2.val, latexContent)
        p3 == JSONparse(cleanedText)
        d3 == DirectDecision(p3.val)
        tryDirect ==
            IF p3.ok /\ d3.kind = "return"
            THEN [path |-> "direct", rec |-> p3.val, body |-> d3.body]
            ELSE [path |-> "fallback", rec |-> Undef,
                  body |-> Body(JBool(TRUE), JStr(<<MsgRephrase>>), Undef,
                                JStr(text), Undef)]
        trySanitized ==
            IF p2.ok /\ d2.kind = "return"
            THEN [path |-> "sanitized", rec |-> p2.val, body |-> d2.body]
            ELSE tryDirect
    IN  IF jsonString = <<>> THEN tryDirect
        ELSE IF p1.ok /\ d1.kind = "return"
             THEN [path |-> "slice", rec |-> p1.val, body |-> d1.body]
        ELSE IF p1.ok /\ d1.kind = "fallthrough" THEN tryDirect
        ELSE trySanitized

\* A request body: message and latexContent are JavaScript values, mode is
\* the mode string.
RequestBody(message, conversationHistory, latexContent, mode) ==
    [message |-> message, conversationHistory |-> conversationHistory,
     latexContent |-> latexContent, mode |-> mode]

ErrorBody(msg) == Body(Undef, Undef, Undef, Undef, JStr(<<msg>>))

\* The outcome of model.generateContent: a raw text, or an exception whose
\* message holds one of the markers the catch block looks for (or none).
LlmText(text) == [ok |-> TRUE, text |-> text, err |-> ""]
LlmThrows(err) == [ok |-> FALSE, text |-> <<>>, err |-> err]

\* conversationContext: one line per turn of conversationHistory.slice(-10),
\* "User: " or "Assistant: " followed by the content, in the order of the
\* array.  A line is the pair of its speaker and its content.
ContextWindow == 10
ConversationContext(conversationHistory) ==
    LET recent == IF Len(conversationHistory) <= ContextWindow
                  THEN conversationHistory
                  ELSE SubSeq(conversationHistory,
                              Len(conversationHistory) - ContextWindow + 1,
                              Len(conversationHistory))
    IN  [k \in 1..Len(recent) |->
            [speaker |-> IF recent[k].role = "user" THEN "User" ELSE "Assistant",
             content |-> recent[k].content]]

\* Whether the handler reaches model.generateContent: both early returns
\* come before it.
ChatRouteCallsLlm(req, keyConfigured) ==
    /\ ~(~Truthy(req.message) \/ req.message.t # "str")
    /\ keyConfigured

\* The handler without the typeof test on the message.
ChatRouteReplyAnyType(req, keyConfigured, llm) ==
    IF ~Truthy(req.message)
    THEN Reply(400, ErrorBody("Message is required and must be a string"))
    ELSE IF ~keyConfigured
    THEN Reply(500, ErrorBody("Gemini API key is not configured"))
    ELSE IF ~llm.ok THEN Reply(500, ErrorBody("Failed to generate response"))
    ELSE Reply(200, Body(JBool(TRUE), Undef, Undef, JStr(llm.text), Undef))

\* The whole handler: the reply to a request, given whether GEMINI_API_KEY
\* is set and what the language model does.
ChatRouteReply(req, keyConfigured, llm) ==
    IF ~Truthy(req.message) \/ req.message.t # "str"
    THEN Reply(400, ErrorBody("Message is required and must be a string"))
    ELSE IF ~keyConfigured
    THEN Reply(500, ErrorBody("Gemini API key is not configured"))
    ELSE IF ~llm.ok THEN
        IF llm.err = "API_KEY_INVALID" THEN Reply(401, ErrorBody("Invalid API key"))
        ELSE IF llm.err = "QUOTA_EXCEEDED" THEN Reply(429, ErrorBody("API quota exceeded"))
        ELSE Reply(500, ErrorBody("Failed to generate response"))
    ELSE IF req.mode = "agent" /\ Truthy(req.latexContent)
    THEN Reply(200, AgentExtract(llm.text, req.latexContent).body)
    ELSE Reply(200, Body(JBool(TRUE), Undef, Undef, JStr(llm.text), Undef))

\* ------------------------------------------------------------------------
\* Raw model texts the route is exercised with
\* ------------------------------------------------------------------------
RECURSIVE EscapeJson(_)
\* A string with its backslashes, quotes and line breaks escaped for JSON.
EscapeJson(s) ==
    IF s = <<>> THEN <<>>
    ELSE (CASE Head(s) = BSl -> <<BSl, BSl>>
            [] Head(s) = Q -> <<BSl, Q>>
            [] Head(s) = NL -> <<BSl, "n">>
            [] OTHER -> <<Head(s)>>) \o EscapeJson(Tail(s))

\* A string literal: properly escaped, or with the characters put in raw.
StrLit(s, escaped) == <<Q>> \o (IF escaped THEN EscapeJson(s) ELSE s) \o <<Q>>

RECURSIVE JoinMembers(_)
\* The present members (non-empty literals) separated by commas.
JoinMembers(ms) ==
    IF ms = <<>> THEN <<>>
    ELSE IF Head(ms).lit = <<>> THEN JoinMembers(Tail(ms))
    ELSE LET rest == JoinMembers(Tail(ms)) IN
        <<Q>> \o Head(ms).key \o <<Q, ":">> \o Head(ms).lit
            \o (IF rest = <<>> THEN <<>> ELSE <<",", Sp>> \o rest)

\* The text of a record {explanation, modifiedLatex, hasChanges}; an empty
\* literal stands for a field that is left out.
RecordText(e, m, h) ==
    <<"{">> \o JoinMembers(<<[key |-> KExplanation, lit |-> e],
                             [key |-> KModifiedLatex, lit |-> m],
                             [key |-> KHasChanges, lit |-> h]>>) \o <<"}">>

\* An explanation that quotes the opening marker of a fenced block.
FenceNote == <<"Removed", Sp, FenceJson, Sp, "block">>

ExplanationLits ==
    {<<>>, StrLit(<<>>, TRUE), StrLit(<<"Done">>, TRUE), StrLit(FenceNote, TRUE)}
LatexLits ==
    {<<>>, <<"null">>, <<"true">>} \cup {StrLit(d, esc) : d \in Docs, esc \in BOOLEAN}
HasChangesLits == {<<>>, <<"true">>, <<"false">>}

RecordTexts ==
    {RecordText(e, m, h) : e \in ExplanationLits, m \in LatexLits, h \in HasChangesLits}

\* A payload as it is, inside a fenced block (with the json tag or without
\* it), or with prose around it.
Wrappings(p) ==
    {p,
     <<FenceJson, NL>> \o p \o <<NL, Fence>>,
     <<Fence, NL>> \o p \o <<NL, Fence>>,
     <<"Sure", Sp>> \o p \o <<NL>>,
     p \o <<Sp, "Done">>}

OtherTexts == {<<"Sure">>, <<"null">>, <<"[", "]">>, <<Q, "Done", Q>>, DocEdited, <<>>}

RawTexts == UNION {Wrappings(p) : p \in RecordTexts} \cup OtherTexts

LlmOutcomes ==
    {LlmText(t) : t \in RawTexts}
        \cup {LlmThrows(e) : e \in {"API_KEY_INVALID", "QUOTA_EXCEEDED", "UNAVAILABLE"}}

RouteRequests ==
    {RequestBody(m, <<>>, l, mode) :
        m \in {Undef, JStr(<<>>), JNum("1"), JStr(<<"hi">>)},
        l \in {Undef, JStr(DocSeed), JStr(DocEdited)},
        mode \in {"ask", "edit", "agent"}}

\* ------------------------------------------------------------------------
\* State
\* ------------------------------------------------------------------------
VARIABLES
    rReq,       \* the request the route is handling
    rKey,       \* whether GEMINI_API_KEY is set
    rLlm,       \* what the language model does for this request
    rRes,       \* the reply of the route, NoReply before it has answered
    latex,      \* EditorContent: the document in the editor
    messages,   \* EditorContent: the transcript
    activeTab,  \* EditorContent: "code" or "chat" (Chat is mounted in "chat")
    input,      \* Chat: the text area
    isLoading,  \* Chat
    retrying,   \* Chat
    mode,       \* Chat: "ask" or "edit"
    calls,      \* the handlers suspended in their await, oldest first
    lastFailed, \* the latexContent sent with the request that finished last,
                \* when it failed (Undef otherwise)
    ev,         \* the last step, when a handler finished in it: the handler,
                \* the documents it handed to onLatexUpdate and onCompile, the
                \* mode and latexContent its request was sent with and the
                \* success flag it read
    resumes,    \* the resume table: the rows in the order they were created
                \* (the id of a row is its position)
    files,      \* public/uploads: who wrote the file of each name last
    last,       \* the last store operation: its name, the session email of
                \* its caller, the id it was given, whether it succeeded and
                \* the ids of the rows it returned
    editor,     \* EditorContent: pdfUrl, resumeTitle, currentResumeId, isSaving
    jobs,       \* the runs of handleCompile and handleSave suspended in an
                \* await, oldest first, each with the values it captured
    step,       \* the last step of handleCompile or handleSave: its name and
                \* the request it sent, if any
    firstSaved  \* the id the first successful save of this session returned
                \* (0 before)

\* ------------------------------------------------------------------------
\* The Chat panel (frontend/components/chat.tsx) inside EditorContent
\* ------------------------------------------------------------------------
MaxMsgs == 4        \* no request starts once the transcript has this many turns
MaxInFlight == 2    \* no request starts while this many are in flight
HistoryWindow == 10

Message(role, content) == [role |-> role, content |-> content]
NoMessage == Message("none", <<>>)

Greeting == Message("assistant", <<"Hello! I'm your **LaTeX resume assistant**.">>)

MsgNoAnswer == "I apologize, but I couldn't generate a proper response."
MsgTrouble == "Sorry, I'm having trouble responding right now."
MsgAuth == "API authentication failed. Please check the configuration."
MsgRate == "API rate limit exceeded. Please try again later."

\* What the user types, and what the editor is changed to by hand.
Inputs == {<<>>, <<Sp>>, <<"hi", Sp>>}
EditorDocs == {DocSeed, DocSeedNl, DocFragment}

\* array.slice(0, n): the oldest n elements.
FirstN(seq, n) == IF Len(seq) <= n THEN seq ELSE SubSeq(seq, 1, n)

\* array.slice(-n)
LastN(seq, n) == IF Len(seq) <= n THEN seq ELSE SubSeq(seq, Len(seq) - n + 1, Len(seq))

\* [...messages].reverse().find(msg => msg.role === "user")
HasUserMessage(msgs) == \E j \in 1..Len(msgs) : msgs[j].role = "user"
LastUserMessage(msgs) == msgs[Max({j \in 1..Len(msgs) : msgs[j].role = "user"})]

\* The body handleSubmit posts.
SubmitRequest(msgs, userMessage, latexContent, m) ==
    RequestBody(JStr(userMessage.content),
                LastN(Append(msgs, userMessage), HistoryWindow),
                JStr(latexContent), m)

\* handleRetry posting the document of the attempt that failed instead of the
\* one in the editor.
RetryRequestStale(msgs, latexContent, m) ==
    RequestBody(JStr(LastUserMessage(msgs).content),
                LastN(msgs, HistoryWindow),
                IF lastFailed # Undef THEN lastFailed ELSE JStr(latexContent), m)

\* The body handleRetry posts.
RetryRequest(msgs, latexContent, m) ==
    RequestBody(JStr(LastUserMessage(msgs).content),
                LastN(msgs, HistoryWindow),
                JStr(latexContent), m)

\* A handler that is suspended in its await: the values its closure holds
\* (messages, latexContent, mode, userMessage), the body it sent, and whether
\* the Chat instance it belongs to is still mounted.
Call(kind, msgs, userMessage, latexContent, m, body) ==
    [kind |-> kind, messages |-> msgs, userMessage |-> userMessage,
     latexContent |-> latexContent, mode |-> m, body |-> body, live |-> TRUE]

\* A 2xx reply of /api/chat as Chat reads it.
ChatBody(success, explanation, modifiedLatex, response, m) ==
    [success |-> success, explanation |-> explanation,
     modifiedLatex |-> modifiedLatex, response |-> response, error |-> Undef,
     mode |-> m]

ChatReplies ==
    {Reply(200, ChatBody(JBool(ok), e, ml, JStr(<<"raw">>), m)) :
        ok \in BOOLEAN,
        e \in {JStr(<<"Done">>)},
        ml \in {Undef} \cup {JStr(d) : d \in EditorDocs},
        m \in {Undef, JStr(<<"edit">>)}}

\* A rejected axios call: an error status with the error body of the route,
\* or no response at all (NoReply).
NoReply == Reply(0, Body(Undef, Undef, Undef, Undef, Undef))

Failures ==
    {Reply(401, ErrorBody("Invalid API key")),
     Reply(429, ErrorBody("API quota exceeded")),
     Reply(500, ErrorBody("Failed to generate response")),
     NoReply}

\* assistantContent preferring the raw response to the explanation.
SubmitContentResponseFirst(data) ==
    IF Truthy(data.response) THEN data.response.s
    ELSE IF Truthy(data.explanation) THEN data.explanation.s
    ELSE IF Truthy(data.error) THEN data.error.s
    ELSE <<MsgNoAnswer>>

\* assistantContent of handleSubmit and of handleRetry (no tools used).
SubmitContent(data) ==
    IF Truthy(data.explanation) THEN data.explanation.s
    ELSE IF Truthy(data.response) THEN data.response.s
    ELSE IF Truthy(data.error) THEN data.error.s
    ELSE <<MsgNoAnswer>>

RetryContent(data) ==
    IF Truthy(data.explanation) THEN data.explanation.s
    ELSE IF Truthy(data.response) THEN data.response.s
    ELSE <<MsgNoAnswer>>

\* errorMessage that shows the text of the server for every status.
ErrorMessageServerText(reply) ==
    IF reply.status # 0 /\ Truthy(reply.data.error) THEN reply.data.error.s
    ELSE <<MsgTrouble>>

\* errorMessage of the catch block of handleSubmit.
ErrorMessage(reply) ==
    IF reply.status = 401 THEN <<MsgAuth>>
    ELSE IF reply.status = 429 THEN <<MsgRate>>
    ELSE IF reply.status # 0 /\ Truthy(reply.data.error) THEN reply.data.error.s
    ELSE <<MsgTrouble>>

\* response.data.mode === "ask" || response.data.mode === "edit"
NamesMode(v) == v \in {JStr(<<"ask">>), JStr(<<"edit">>)}
ModeOf(v) == IF v = JStr(<<"ask">>) THEN "ask" ELSE "edit"

\* isEditFlow: (response.data.mode || mode) === "edit" || mode === "edit"
IsEditFlow(data, m) ==
    (IF Truthy(data.mode) THEN data.mode = JStr(<<"edit">>) ELSE m = "edit")
        \/ m = "edit"

\* What handleSubmit does with a 2xx reply: the document it hands to
\* onLatexUpdate and the one it hands to onCompile (Undef: no call).
SubmitApply(data, latexContent, m) ==
    IF /\ IsEditFlow(data, m)
       /\ Truthy(data.success)
       /\ Truthy(data.modifiedLatex)
       /\ data.modifiedLatex # JStr(latexContent)
    THEN [update |-> data.modifiedLatex, compile |-> data.modifiedLatex]
    ELSE IF Truthy(data.modifiedLatex) /\ ~Truthy(data.success)
    THEN [update |-> data.modifiedLatex, compile |-> Undef]
    ELSE [update |-> Undef, compile |-> Undef]

\* What handleRetry does with a 2xx reply whose success is truthy.
RetryApply(data, latexContent, m) ==
    IF /\ IsEditFlow(data, m)
       /\ Truthy(data.modifiedLatex)
       /\ data.modifiedLatex # JStr(latexContent)
    THEN [update |-> data.modifiedLatex, compile |-> data.modifiedLatex]
    ELSE [update |-> Undef, compile |-> Undef]

\* contentToCompile of handleCompile: the argument when it is truthy, the
\* editor document otherwise.
ContentToCompile(latexContent, editorLatex) ==
    IF Truthy(latexContent) THEN latexContent.s ELSE editorLatex

routeVars == <<rReq, rKey, rLlm, rRes>>
editorVars == <<latex, messages, activeTab>>
chatVars == <<input, isLoading, retrying, mode>>
storeVars == <<resumes, files, last>>
saveVars == <<editor, jobs, step, firstSaved>>
vars ==
    <<rReq, rKey, rLlm, rRes, latex, messages, activeTab, input, isLoading,
      retrying, mode, calls, lastFailed, ev, resumes, files, last,
      editor, jobs, step, firstSaved>>

\* The mode and the latexContent the request of call c was sent with and the
\* success flag of its reply are recorded for a step that called
\* onLatexUpdate only.
Event(op, update, compile, c, success) ==
    [op |-> op, update |-> update, compile |-> compile,
     mode |-> IF update = Undef THEN "" ELSE c.mode,
     snapshot |-> IF update = Undef THEN <<>> ELSE c.latexContent,
     success |-> update # Undef /\ success]
NoEvent ==
    [op |-> "", update |-> Undef, compile |-> Undef, mode |-> "",
     snapshot |-> <<>>, success |-> FALSE]

\* ------------------------------------------------------------------------
\* The resume store: frontend/lib/actions.ts and the PUT handler of
\* frontend/app/api/update-resume/route.ts over the resume table
\* ------------------------------------------------------------------------
MaxResumes == 2     \* rows that are ever created
MaxFiles == 2       \* file names in public/uploads

\* session?.user?.email: the email of a signed-in user, or none.
Users == {"alice", "bob"}
NoUser == "none"
Sessions == Users \cup {NoUser}

FileNames == 1..MaxFiles
\* pdfUrl: the name of a file in public/uploads, 0 for none.
PdfUrls == {0} \cup FileNames

\* What callers pass as title and latexContent.
Titles == {<<>>, <<"cv">>}
Contents == {DocSeed, DocEdited}

\* A row of the table, and what is left of a row that was deleted.
Resume(owner, title, latexContent, pdfUrl) ==
    [owner |-> owner, title |-> title, latexContent |-> latexContent,
     pdfUrl |-> pdfUrl, deleted |-> FALSE]
Deleted ==
    [owner |-> NoUser, title |-> <<>>, latexContent |-> <<>>, pdfUrl |-> 0,
     deleted |-> TRUE]

\* The where clause without its user condition: any row with this id.
OwnedByAnyone(id, email) ==
    id \in 1..Len(resumes) /\ ~resumes[id].deleted

\* where: { id, user: { email: session.user.email } }
Owned(id, email) ==
    id \in 1..Len(resumes) /\ ~resumes[id].deleted /\ resumes[id].owner = email

\* The record of a store operation.
Op(op, who, id, ok, returned) ==
    [op |-> op, who |-> who, id |-> id, ok |-> ok, returned |-> returned]
NoOp == Op("", NoUser, 0, FALSE, {})

StoreEmpty ==
    /\ resumes = <<>>
    /\ files = [n \in FileNames |-> NoUser]
    /\ last = NoOp

\* ---- EditorContent: compile and save ----
MaxJobs == 2        \* runs of handleCompile and handleSave suspended at once

\* The session the page is used in.
SessionUser == "alice"

\* A compiled PDF: the n-th blob the compile route returned and the document
\* it was compiled from.  pdfUrl is the object URL of such a blob, or NoPdf
\* (the empty string).
Pdf(n, content) == [n |-> n, content |-> content]
NoPdf == Pdf(0, <<>>)

\* What is typed into the title field of the save dialog.
TitleInputs == {<<>>, <<Sp>>, <<"cv">>}

Editor(pdfUrl, resumeTitle, currentResumeId, isSaving) ==
    [pdfUrl |-> pdfUrl, resumeTitle |-> resumeTitle,
     currentResumeId |-> currentResumeId, isSaving |-> isSaving]

\* A run of handleCompile or handleSave suspended in an await: the values of
\* its closure, the request it is waiting for and, once the route has
\* answered, the answer.
Job(kind, phase, content, title, id, pdf) ==
    [kind |-> kind, phase |-> phase, content |-> content, title |-> title,
     id |-> id, pdf |-> pdf, ok |-> FALSE, newId |-> 0]

\* The request a step sent: the route, and the resumeId, title, latexContent
\* and pdf fields of its form ("" when the step sent nothing).
Step(op, url, id, title, content, pdf) ==
    [op |-> op, url |-> url, id |-> id, title |-> title, content |-> content,
     pdf |-> pdf]
NoStep == Step("", "", 0, <<>>, <<>>, NoPdf)
Quiet(op) == Step(op, "", 0, <<>>, <<>>, NoPdf)

\* The page was opened on a new resume and nothing was compiled or saved.
SaveIdle ==
    /\ editor = Editor(NoPdf, <<>>, 0, FALSE)
    /\ jobs = <<>>
    /\ step = NoStep
    /\ firstSaved = 0

\* The state of a page that was just opened on a new resume: the Code tab
\* is shown and Chat is not mounted.
InitSession ==
    /\ latex = DocSeed
    /\ messages = <<Greeting>>
    /\ activeTab = "code"
    /\ input = <<>>
    /\ isLoading = FALSE
    /\ retrying = FALSE
    /\ mode = "ask"
    /\ calls = <<>>
    /\ lastFailed = Undef
    /\ ev = NoEvent

RouteIdle ==
    /\ rReq = RequestBody(Undef, <<>>, Undef, "ask")
    /\ rKey = TRUE
    /\ rLlm = LlmText(<<>>)
    /\ rRes = NoReply

Init == InitSession /\ RouteIdle /\ StoreEmpty /\ SaveIdle

InitRoute ==
    /\ InitSession
    /\ StoreEmpty
    /\ SaveIdle
    /\ rReq \in RouteRequests
    /\ rKey \in BOOLEAN
    /\ rLlm \in LlmOutcomes
    /\ rRes = NoReply

\* POST /api/chat
POST ==
    /\ rRes = NoReply
    /\ rRes' = ChatRouteReply(rReq, rKey, rLlm)
    /\ UNCHANGED <<rReq, rKey, rLlm>>
    /\ UNCHANGED <<editorVars, chatVars, calls, lastFailed, ev, storeVars, saveVars>>

NextRoute == POST

SpecRoute == InitRoute /\ [][NextRoute]_vars

\* ---- EditorContent ----
\* A tab button.  Leaving the Chat tab unmounts Chat: its state is gone and
\* the handlers still waiting belong to no mounted instance any more.  Coming
\* back mounts a new instance with the initial state.
SetActiveTab(tab) ==
    /\ tab # activeTab
    /\ activeTab' = tab
    /\ input' = <<>>
    /\ isLoading' = FALSE
    /\ retrying' = FALSE
    /\ mode' = "ask"
    /\ calls' = [j \in 1..Len(calls) |-> [calls[j] EXCEPT !.live = FALSE]]
    /\ ev' = NoEvent
    /\ UNCHANGED <<latex, messages, lastFailed, routeVars, storeVars, saveVars>>

\* onChange of the editor in the Code tab.
EditorChange(val) ==
    /\ activeTab = "code"
    /\ val # latex
    /\ latex' = val
    /\ ev' = NoEvent
    /\ UNCHANGED <<messages, activeTab, chatVars, calls, lastFailed, routeVars, storeVars, saveVars>>

\* ---- Chat ----
\* onChange of the text area (disabled while isLoading).
SetInput(val) ==
    /\ activeTab = "chat"
    /\ ~isLoading
    /\ val # input
    /\ input' = val
    /\ ev' = NoEvent
    /\ UNCHANGED <<editorVars, isLoading, retrying, mode, calls, lastFailed, routeVars, storeVars, saveVars>>

\* Mode buttons that start a new conversation when the mode is switched.
SetModeNewConversation(m) ==
    /\ activeTab = "chat"
    /\ ~isLoading
    /\ m # mode
    /\ mode' = m
    /\ messages' = <<Greeting>>
    /\ ev' = NoEvent
    /\ UNCHANGED <<latex, activeTab, input, isLoading, retrying, calls, lastFailed,
                   routeVars, storeVars, saveVars>>

\* The Ask and Edit buttons (disabled while isLoading).
SetMode(m) ==
    /\ activeTab = "chat"
    /\ ~isLoading
    /\ m # mode
    /\ mode' = m
    /\ ev' = NoEvent
    /\ UNCHANGED <<editorVars, input, isLoading, retrying, calls, lastFailed, routeVars, storeVars, saveVars>>

\* handleSubmit up to its await.
StartSubmit ==
    /\ activeTab = "chat"
    /\ Trim(input) # <<>>
    /\ ~isLoading
    /\ LET userMessage == Message("user", Trim(input))
           body == SubmitRequest(messages, userMessage, latex, mode)
       IN  /\ messages' = Append(messages, userMessage)
           /\ calls' = Append(calls, Call("submit", messages, userMessage, latex, mode, body))
    /\ input' = <<>>
    /\ isLoading' = TRUE
    /\ ev' = NoEvent
    /\ UNCHANGED <<latex, activeTab, retrying, mode, lastFailed, routeVars, storeVars, saveVars>>

\* handleSubmit within the bounds of the session.
HandleSubmit ==
    /\ Len(messages) < MaxMsgs
    /\ Len(calls) < MaxInFlight
    /\ StartSubmit

\* The Retry button is rendered under the last message when it is an
\* assistant message, and is disabled while isLoading or retrying.
RetryOffered ==
    /\ activeTab = "chat"
    /\ messages[Len(messages)].role = "assistant"
    /\ ~(isLoading \/ retrying)

\* handleRetry when the transcript holds no user message: it returns.
HandleRetryNothing ==
    /\ RetryOffered
    /\ ~HasUserMessage(messages)
    /\ ev' = NoEvent
    /\ UNCHANGED <<editorVars, chatVars, calls, lastFailed, routeVars, storeVars, saveVars>>

\* handleRetry up to its await.
StartRetry ==
    /\ RetryOffered
    /\ HasUserMessage(messages)
    /\ retrying' = TRUE
    /\ calls' = Append(calls, Call("retry", messages, NoMessage, latex, mode,
                                   RetryRequest(messages, latex, mode)))
    /\ ev' = NoEvent
    /\ UNCHANGED <<editorVars, input, isLoading, mode, lastFailed, routeVars, storeVars, saveVars>>

\* handleRetry within the bounds of the session.
HandleRetry ==
    /\ Len(messages) < MaxMsgs
    /\ Len(calls) < MaxInFlight
    /\ StartRetry

Without(seq, i) == SubSeq(seq, 1, i - 1) \o SubSeq(seq, i + 1, Len(seq))

\* The state setters of a handler act only on the instance it belongs to.
SetModeFrom(c, data) ==
    IF c.live /\ NamesMode(data.mode) THEN ModeOf(data.mode) ELSE mode

\* handleSubmit after its await, the call resolved (2xx).
SubmitResolved(i, reply) ==
    /\ calls[i].kind = "submit"
    /\ LET c == calls[i]
           data == reply.data
           assistantMessage == Message("assistant", SubmitContent(data))
           ap == SubmitApply(data, c.latexContent, c.mode)
       IN  /\ mode' = SetModeFrom(c, data)
           /\ messages' = c.messages \o <<c.userMessage, assistantMessage>>
           /\ latex' = IF ap.update = Undef THEN latex ELSE ap.update.s
           /\ isLoading' = IF c.live THEN FALSE ELSE isLoading
           /\ lastFailed' = Undef
           /\ ev' = Event("submitResolved", ap.update, ap.compile, c,
                          Truthy(data.success))
    /\ calls' = Without(calls, i)
    /\ UNCHANGED <<activeTab, input, retrying, routeVars, storeVars, saveVars>>

\* handleSubmit after its await, the call rejected (catch).
SubmitRejected(i, reply) ==
    /\ calls[i].kind = "submit"
    /\ LET c == calls[i]
           errorResponse == Message("assistant", ErrorMessage(reply))
       IN  /\ messages' = c.messages \o <<c.userMessage, errorResponse>>
           /\ isLoading' = IF c.live THEN FALSE ELSE isLoading
           /\ lastFailed' = JStr(c.latexContent)
           /\ ev' = Event("submitRejected", Undef, Undef, c, FALSE)
    /\ calls' = Without(calls, i)
    /\ UNCHANGED <<latex, activeTab, input, retrying, mode, routeVars, storeVars, saveVars>>

\* handleRetry after its await, a 2xx reply with a truthy success.
RetryResolved(i, reply) ==
    /\ calls[i].kind = "retry"
    /\ Truthy(reply.data.success)
    /\ LET c == calls[i]
           data == reply.data
           assistantMessage == Message("assistant", RetryContent(data))
           ap == RetryApply(data, c.latexContent, c.mode)
       IN  /\ mode' = SetModeFrom(c, data)
           /\ messages' = Append(c.messages, assistantMessage)
           /\ latex' = IF ap.update = Undef THEN latex ELSE ap.update.s
           /\ retrying' = IF c.live THEN FALSE ELSE retrying
           /\ lastFailed' = Undef
           /\ ev' = Event("retryResolved", ap.update, ap.compile, c, TRUE)
    /\ calls' = Without(calls, i)
    /\ UNCHANGED <<activeTab, input, isLoading, routeVars, storeVars, saveVars>>

\* The catch of handleRetry without the finally block: retrying stays set.
RetryRejectedNoFinally(i, reply) ==
    /\ calls[i].kind = "retry"
    /\ reply.status = 200 => ~Truthy(reply.data.success)
    /\ lastFailed' = JStr(calls[i].latexContent)
    /\ ev' = Event("retryRejected", Undef, Undef, calls[i], FALSE)
    /\ calls' = Without(calls, i)
    /\ UNCHANGED <<editorVars, input, isLoading, retrying, mode, routeVars, storeVars, saveVars>>

\* handleRetry after its await, the call rejected or answered without a
\* truthy success (throw, catch): a toast and nothing else.
RetryRejected(i, reply) ==
    /\ calls[i].kind = "retry"
    /\ reply.status = 200 => ~Truthy(reply.data.success)
    /\ LET c == calls[i]
       IN  /\ retrying' = IF c.live THEN FALSE ELSE retrying
           /\ lastFailed' = JStr(c.latexContent)
           /\ ev' = Event("retryRejected", Undef, Undef, c, FALSE)
    /\ calls' = Without(calls, i)
    /\ UNCHANGED <<editorVars, input, isLoading, mode, routeVars, storeVars, saveVars>>

Next ==
    \/ \E tab \in {"code", "chat"} : SetActiveTab(tab)
    \/ \E val \in EditorDocs : EditorChange(val)
    \/ \E val \in Inputs : SetInput(val)
    \/ \E m \in {"ask", "edit"} : SetMode(m)
    \/ HandleSubmit
    \/ HandleRetryNothing
    \/ HandleRetry
    \/ \E i \in 1..Len(calls) : \E reply \in ChatReplies : SubmitResolved(i, reply)
    \/ \E i \in 1..Len(calls) : \E reply \in Failures : SubmitRejected(i, reply)
    \/ \E i \in 1..Len(calls) : \E reply \in ChatReplies : RetryResolved(i, reply)
    \/ \E i \in 1..Len(calls) : \E reply \in ChatReplies \cup Failures : RetryRejected(i, reply)

Spec == Init /\ [][Next]_vars

\* The network call of the i-th waiting handler completes or fails, and the
\* handler runs to its end.
Complete(i) ==
    \/ \E reply \in ChatReplies : SubmitResolved(i, reply)
    \/ \E reply \in Failures : SubmitRejected(i, reply)
    \/ \E reply \in ChatReplies : RetryResolved(i, reply)
    \/ \E reply \in ChatReplies \cup Failures : RetryRejected(i, reply)

\* A session in which the document is changed by responses only, never by
\* hand in the Code tab.
NextLive ==
    \/ \E tab \in {"code", "chat"} : SetActiveTab(tab)
    \/ \E val \in Inputs : SetInput(val)
    \/ \E m \in {"ask", "edit"} : SetMode(m)
    \/ HandleSubmit
    \/ HandleRetryNothing
    \/ HandleRetry
    \/ \E i \in 1..Len(calls) : \E reply \in ChatReplies : SubmitResolved(i, reply)
    \/ \E i \in 1..Len(calls) : \E reply \in Failures : SubmitRejected(i, reply)
    \/ \E i \in 1..Len(calls) : \E reply \in ChatReplies : RetryResolved(i, reply)
    \/ \E i \in 1..Len(calls) : \E reply \in ChatReplies \cup Failures : RetryRejected(i, reply)

\* Every network call completes or fails in the end.
SpecLive ==
    /\ Init
    /\ [][NextLive]_vars
    /\ \A i \in 1..MaxInFlight : WF_vars(i <= Len(calls) /\ Complete(i))

\* ---- The resume store ----
InitStore == InitSession /\ RouteIdle /\ StoreEmpty /\ SaveIdle

\* saveResume of actions.ts
SaveResume(who, title, latexContent, pdfUrl) ==
    /\ IF who = NoUser
       THEN /\ last' = Op("saveResume", who, 0, FALSE, {})
            /\ UNCHANGED resumes
       ELSE /\ Len(resumes) < MaxResumes
            /\ resumes' = Append(resumes, Resume(who, title, latexContent, pdfUrl))
            /\ last' = Op("saveResume", who, Len(resumes) + 1, TRUE, {})
    /\ UNCHANGED <<files, routeVars, editorVars, chatVars, calls, lastFailed, ev>>

\* updateResume of actions.ts
UpdateResume(who, id, title, latexContent, pdfUrl) ==
    /\ IF who # NoUser /\ Owned(id, who)
       THEN /\ resumes' = [resumes EXCEPT ![id] =
                   Resume(who, title, latexContent,
                          IF pdfUrl # 0 THEN pdfUrl ELSE resumes[id].pdfUrl)]
            /\ last' = Op("updateResume", who, id, TRUE, {})
       ELSE /\ last' = Op("updateResume", who, id, FALSE, {})
            /\ UNCHANGED resumes
    /\ UNCHANGED <<files, routeVars, editorVars, chatVars, calls, lastFailed, ev>>

\* getUserResumes of actions.ts
GetUserResumes(who) ==
    /\ last' = Op("getUserResumes", who, 0, who # NoUser,
                  IF who = NoUser THEN {}
                  ELSE {id \in 1..Len(resumes) : Owned(id, who)})
    /\ UNCHANGED <<resumes, files, routeVars, editorVars, chatVars, calls, lastFailed, ev>>

\* getResumeById of actions.ts
GetResumeById(who, id) ==
    /\ last' = Op("getResumeById", who, id, who # NoUser /\ Owned(id, who),
                  IF who # NoUser /\ Owned(id, who) THEN {id} ELSE {})
    /\ UNCHANGED <<resumes, files, routeVars, editorVars, chatVars, calls, lastFailed, ev>>

\* deleteResume of actions.ts
DeleteResume(who, id) ==
    /\ IF who # NoUser /\ Owned(id, who)
       THEN /\ resumes' = [resumes EXCEPT ![id] = Deleted]
            /\ last' = Op("deleteResume", who, id, TRUE, {})
       ELSE /\ last' = Op("deleteResume", who, id, FALSE, {})
            /\ UNCHANGED resumes
    /\ UNCHANGED <<files, routeVars, editorVars, chatVars, calls, lastFailed, ev>>

\* The name the PUT handler writes the uploaded file under: the one of the
\* existing row when it has one, a new one otherwise.
UploadName(who, resumeId) ==
    IF Owned(resumeId, who) /\ resumes[resumeId].pdfUrl # 0
    THEN resumes[resumeId].pdfUrl
    ELSE IF \E n \in FileNames : files[n] = NoUser
         THEN Min({n \in FileNames : files[n] = NoUser})
         ELSE 0

\* PUT /api/update-resume: 401 without a session, 400 when a field is
\* missing, the upload written before the row is updated, 500 when the update
\* finds no row of this id for this user.
PutUpdateResume(who, resumeId, title, latexContent, pdf) ==
    /\ IF who = NoUser \/ resumeId = 0 \/ title = <<>> \/ latexContent = <<>>
       THEN /\ last' = Op("PUT", who, resumeId, FALSE, {})
            /\ UNCHANGED <<resumes, files>>
       ELSE LET fileName == UploadName(who, resumeId)
                pdfUrl == IF pdf THEN fileName ELSE 0
            IN  /\ pdf => fileName # 0
                /\ files' = IF pdf THEN [files EXCEPT ![fileName] = who] ELSE files
                /\ IF Owned(resumeId, who)
                   THEN /\ resumes' = [resumes EXCEPT ![resumeId] =
                               Resume(who, title, latexContent,
                                      IF pdfUrl # 0 THEN pdfUrl
                                      ELSE resumes[resumeId].pdfUrl)]
                        /\ last' = Op("PUT", who, resumeId, TRUE, {resumeId})
                   ELSE /\ last' = Op("PUT", who, resumeId, FALSE, {})
                        /\ UNCHANGED resumes
    /\ UNCHANGED <<routeVars, editorVars, chatVars, calls, lastFailed, ev>>

NextStore ==
    \/ \E who \in Sessions, c \in Contents, u \in PdfUrls :
          SaveResume(who, <<"cv">>, c, u) /\ UNCHANGED saveVars
    \/ \E who \in Sessions, id \in 1..MaxResumes, c \in Contents, u \in PdfUrls :
          UpdateResume(who, id, <<"cv">>, c, u) /\ UNCHANGED saveVars
    \/ \E who \in Sessions : GetUserResumes(who) /\ UNCHANGED saveVars
    \/ \E who \in Sessions, id \in 1..MaxResumes :
          GetResumeById(who, id) /\ UNCHANGED saveVars
    \/ \E who \in Sessions, id \in 1..MaxResumes :
          DeleteResume(who, id) /\ UNCHANGED saveVars
    \/ \E who \in Sessions, id \in 0..MaxResumes, t \in Titles, c \in Contents,
          pdf \in BOOLEAN : PutUpdateResume(who, id, t, c, pdf) /\ UNCHANGED saveVars

SpecStore == InitStore /\ [][NextStore]_vars

\* ------------------------------------------------------------------------
\* Validation of the instruction: the Chat form and the route side by side
\* ------------------------------------------------------------------------
\* Two outcomes of the language model are enough here: a text and an
\* exception.
FewOutcomes == {LlmText(<<"Sure">>), LlmThrows("UNAVAILABLE")}

InitReject ==
    /\ InitSession
    /\ StoreEmpty
    /\ SaveIdle
    /\ rReq \in RouteRequests
    /\ rKey \in BOOLEAN
    /\ rLlm \in FewOutcomes
    /\ rRes = NoReply

\* handleSubmit called (Enter in the text area) while the trimmed input is
\* empty: it returns at its first statement.
HandleSubmitIgnored ==
    /\ activeTab = "chat"
    /\ ~isLoading
    /\ Trim(input) = <<>>
    /\ ev' = [NoEvent EXCEPT !.op = "submitIgnored"]
    /\ UNCHANGED <<editorVars, chatVars, calls, lastFailed, routeVars, storeVars, saveVars>>

NextReject ==
    \/ POST
    \/ \E tab \in {"code", "chat"} : SetActiveTab(tab)
    \/ \E val \in Inputs : SetInput(val)
    \/ HandleSubmitIgnored

SpecReject == InitReject /\ [][NextReject]_vars

\* ------------------------------------------------------------------------
\* EditorContent: compiling and saving (frontend/app/api/compile/route.ts
\* from line 37, frontend/app/editor/editor-content.tsx) with the routes
\* save-resume and update-resume
\* ------------------------------------------------------------------------
\* POST /api/save-resume: 401 without a session, 400 when a field is
\* missing, else the upload is written under a new name and a row is created.
PostSaveResume(who, title, latexContent, pdf) ==
    /\ IF who = NoUser \/ title = <<>> \/ latexContent = <<>> \/ ~pdf
       THEN /\ last' = Op("POST", who, 0, FALSE, {})
            /\ UNCHANGED <<resumes, files>>
       ELSE /\ Len(resumes) < MaxResumes
            /\ \E n \in FileNames : files[n] = NoUser
            /\ LET fileName == Min({n \in FileNames : files[n] = NoUser})
               IN  /\ files' = [files EXCEPT ![fileName] = who]
                   /\ resumes' = Append(resumes,
                                        Resume(who, title, latexContent, fileName))
            /\ last' = Op("POST", who, Len(resumes) + 1, TRUE, {Len(resumes) + 1})
    /\ UNCHANGED <<routeVars, editorVars, chatVars, calls, lastFailed, ev>>

\* URL.createObjectURL: a URL that no blob in use has.
FreshPdf ==
    Min({n \in 1..(MaxJobs + 2) :
            /\ editor.pdfUrl.n # n
            /\ \A j \in 1..Len(jobs) : jobs[j].pdf.n # n})

\* The title field of the save dialog (and its Cancel button, which empties
\* it); the dialog opens once a PDF is shown and is locked while saving.
SetResumeTitle(t) ==
    /\ editor.pdfUrl # NoPdf
    /\ ~editor.isSaving
    /\ t # editor.resumeTitle
    /\ editor' = [editor EXCEPT !.resumeTitle = t]
    /\ step' = NoStep
    /\ UNCHANGED <<jobs, firstSaved, editorVars, chatVars, calls, lastFailed, ev,
                   routeVars, storeVars>>

\* handleCompile up to the await of the compile call (the Compile button).
HandleCompile ==
    /\ Len(jobs) < MaxJobs
    /\ LET contentToCompile == ContentToCompile(Undef, latex)
       IN  /\ jobs' = Append(jobs, Job("compile", "compiling", contentToCompile,
                                       editor.resumeTitle, editor.currentResumeId,
                                       NoPdf))
           /\ step' = Step("compileStart", "compile", 0, <<>>, contentToCompile, NoPdf)
    /\ UNCHANGED <<editor, firstSaved, editorVars, chatVars, calls, lastFailed, ev,
                   routeVars, storeVars>>

\* The compile call was rejected (the route forwards the status of the
\* compile service): catch, a toast.  This one also empties the preview.
CompileFailedClearsPreview(j) ==
    /\ jobs[j].kind = "compile"
    /\ jobs[j].phase = "compiling"
    /\ jobs' = Without(jobs, j)
    /\ editor' = [editor EXCEPT !.pdfUrl = NoPdf]
    /\ step' = Quiet("compileFailed")
    /\ UNCHANGED <<firstSaved, editorVars, chatVars, calls, lastFailed, ev,
                   routeVars, storeVars>>

\* The compile call was rejected (the route forwards the status of the
\* compile service): catch, a toast.
CompileFailed(j) ==
    /\ jobs[j].kind = "compile"
    /\ jobs[j].phase = "compiling"
    /\ jobs' = Without(jobs, j)
    /\ step' = Quiet("compileFailed")
    /\ UNCHANGED <<editor, firstSaved, editorVars, chatVars, calls, lastFailed, ev,
                   routeVars, storeVars>>

\* The compile call resolved: setPdfUrl, then the auto-update request when
\* the handler captured a resume id and a title that is not blank.
CompileSucceeded(j) ==
    /\ jobs[j].kind = "compile"
    /\ jobs[j].phase = "compiling"
    /\ LET c == jobs[j]
           pdf == Pdf(FreshPdf, c.content)
       IN  /\ editor' = [editor EXCEPT !.pdfUrl = pdf]
           /\ IF c.id # 0 /\ Trim(c.title) # <<>>
              THEN /\ jobs' = [jobs EXCEPT ![j] =
                                  [c EXCEPT !.phase = "updating", !.pdf = pdf]]
                   /\ step' = Step("compileOk", "update-resume", c.id, c.title,
                                   c.content, pdf)
              ELSE /\ jobs' = Without(jobs, j)
                   /\ step' = Quiet("compileOk")
    /\ UNCHANGED <<firstSaved, editorVars, chatVars, calls, lastFailed, ev,
                   routeVars, storeVars>>

\* The update-resume route handles the auto-update request; handleCompile
\* ignores the outcome apart from a toast.
AutoUpdateHandled(j, who) ==
    /\ jobs[j].kind = "compile"
    /\ jobs[j].phase = "updating"
    /\ PutUpdateResume(who, jobs[j].id, jobs[j].title, jobs[j].content, TRUE)
    /\ jobs' = Without(jobs, j)
    /\ step' = Quiet("autoUpdated")
    /\ UNCHANGED <<editor, firstSaved>>

\* The auto-update request never reaches the route.
AutoUpdateLost(j) ==
    /\ jobs[j].kind = "compile"
    /\ jobs[j].phase = "updating"
    /\ jobs' = Without(jobs, j)
    /\ step' = Quiet("autoUpdateLost")
    /\ UNCHANGED <<editor, firstSaved, editorVars, chatVars, calls, lastFailed, ev,
                   routeVars, storeVars>>

\* handleSave up to the await of its request: PUT update-resume when the
\* page has a resume id, POST save-resume otherwise.
HandleSave ==
    /\ Trim(editor.resumeTitle) # <<>>
    /\ editor.pdfUrl # NoPdf
    /\ ~editor.isSaving
    /\ Len(jobs) < MaxJobs
    /\ editor' = [editor EXCEPT !.isSaving = TRUE]
    /\ jobs' = Append(jobs, Job("save", "sent", latex, editor.resumeTitle,
                                editor.currentResumeId, editor.pdfUrl))
    /\ step' = Step("saveStart",
                    IF editor.currentResumeId # 0 THEN "update-resume"
                    ELSE "save-resume",
                    editor.currentResumeId, editor.resumeTitle, latex, editor.pdfUrl)
    /\ UNCHANGED <<firstSaved, editorVars, chatVars, calls, lastFailed, ev,
                   routeVars, storeVars>>

\* The route handles the request of handleSave and answers.
SaveHandled(j, who) ==
    /\ jobs[j].kind = "save"
    /\ jobs[j].phase = "sent"
    /\ IF jobs[j].id # 0
       THEN PutUpdateResume(who, jobs[j].id, jobs[j].title, jobs[j].content, TRUE)
       ELSE PostSaveResume(who, jobs[j].title, jobs[j].content, TRUE)
    /\ jobs' = [jobs EXCEPT ![j] = [@ EXCEPT !.phase = "answered",
                                             !.ok = last'.ok,
                                             !.newId = last'.id]]
    /\ step' = Quiet("saveHandled")
    /\ UNCHANGED <<editor, firstSaved>>

\* handleSave after its await.  A success answer: the id is kept when the
\* handler had none.  An error answer or a lost answer: catch, a toast.
\* This one forgets the id.
SaveFinishedForgetsId(j, lost) ==
    /\ jobs[j].kind = "save"
    /\ ~lost => jobs[j].phase = "answered"
    /\ LET c == jobs[j]
           success == ~lost /\ c.ok
       IN  /\ editor' = [editor EXCEPT !.isSaving = FALSE]
           /\ firstSaved' = IF success /\ c.id = 0 /\ firstSaved = 0
                            THEN c.newId ELSE firstSaved
           /\ step' = Quiet(IF success THEN "saveOk" ELSE "saveFailed")
    /\ jobs' = Without(jobs, j)
    /\ UNCHANGED <<editorVars, chatVars, calls, lastFailed, ev, routeVars, storeVars>>

\* handleSave after its await.  A success answer: the id is kept when the
\* handler had none.  An error answer or a lost answer: catch, a toast.
SaveFinished(j, lost) ==
    /\ jobs[j].kind = "save"
    /\ ~lost => jobs[j].phase = "answered"
    /\ LET c == jobs[j]
           success == ~lost /\ c.ok
       IN  /\ editor' = [editor EXCEPT
                            !.isSaving = FALSE,
                            !.currentResumeId =
                                IF success /\ c.id = 0 THEN c.newId ELSE @]
           /\ firstSaved' = IF success /\ c.id = 0 /\ firstSaved = 0
                            THEN c.newId ELSE firstSaved
           /\ step' = Quiet(IF success THEN "saveOk" ELSE "saveFailed")
    /\ jobs' = Without(jobs, j)
    /\ UNCHANGED <<editorVars, chatVars, calls, lastFailed, ev, routeVars, storeVars>>

InitSave == InitSession /\ RouteIdle /\ StoreEmpty /\ SaveIdle

NextSave ==
    \/ \E val \in Contents : EditorChange(val)
    \/ \E t \in TitleInputs : SetResumeTitle(t)
    \/ HandleCompile
    \/ \E j \in 1..Len(jobs) : CompileFailed(j)
    \/ \E j \in 1..Len(jobs) : CompileSucceeded(j)
    \/ \E j \in 1..Len(jobs) : \E who \in {SessionUser, NoUser} : AutoUpdateHandled(j, who)
    \/ \E j \in 1..Len(jobs) : AutoUpdateLost(j)
    \/ HandleSave
    \/ \E j \in 1..Len(jobs) : \E who \in {SessionUser, NoUser} : SaveHandled(j, who)
    \/ \E j \in 1..Len(jobs) : \E lost \in BOOLEAN : SaveFinished(j, lost)

SpecSave == InitSave /\ [][NextSave]_vars

\* ------------------------------------------------------------------------
\* Long conversations: the history a request carries
\* ------------------------------------------------------------------------
MaxTurns == 12      \* turns of the longest transcript

\* A conversation that went on for MaxTurns turns: the greeting, then user
\* and assistant turns in alternation, each with a content of its own.
LongTranscript ==
    [k \in 1..MaxTurns |->
        IF k = 1 THEN Greeting
        ELSE Message(IF k % 2 = 0 THEN "user" ELSE "assistant", <<ToString(k)>>)]

Transcripts == {SubSeq(LongTranscript, 1, n) : n \in 1..MaxTurns}

\* The Chat tab is shown on a conversation of some length.
InitHistory ==
    /\ latex = DocSeed
    /\ messages \in Transcripts
    /\ activeTab = "chat"
    /\ input = <<>>
    /\ isLoading = FALSE
    /\ retrying = FALSE
    /\ mode \in {"ask", "edit"}
    /\ calls = <<>>
    /\ lastFailed = Undef
    /\ ev = NoEvent
    /\ RouteIdle
    /\ StoreEmpty
    /\ SaveIdle

\* The route receives the request of a waiting handler.
Receive(i) ==
    /\ rReq # calls[i].body
    /\ rReq' = calls[i].body
    /\ UNCHANGED <<rKey, rLlm, rRes, editorVars, chatVars, calls, lastFailed, ev,
                   storeVars, saveVars>>

NextHistory ==
    \/ \E val \in Inputs : SetInput(val)
    \/ StartSubmit
    \/ StartRetry
    \/ \E i \in 1..Len(calls) : Receive(i)

SpecHistory == InitHistory /\ [][NextHistory]_vars

\* ------------------------------------------------------------------------
\* Completeness of a document (spec 4.1)
\* ------------------------------------------------------------------------
IsComplete(d) ==
    /\ \E i \in 1..Len(d) : DocClassAt(d, i)
    /\ \E b \in 1..Len(d) : \E e \in 1..Len(d) :
          BeginDocAt(d, b) /\ EndDocAt(d, e) /\ e > b

\* A value is a document when it is a non-empty string.
IsDocValue(v) == v.t = "str" /\ v.s # <<>>


\* There is a document class declaration somewhere in d.
HasDocClass(d) == \E i \in 1..Len(d) : DocClassAt(d, i)

\* The route answered 200 from its agent branch.
AgentAnswered ==
    /\ rRes.status = 200
    /\ rReq.mode = "agent"
    /\ Truthy(rReq.latexContent)

\* What the agent branch extracted from the raw text of this request.
Extracted == AgentExtract(rLlm.text, rReq.latexContent)

\* The record the route obtained, when it obtained one.
RecordObtained == AgentAnswered /\ Extracted.path # "fallback"

IsPrefix(a, b) == Len(a) <= Len(b) /\ SubSeq(b, 1, Len(a)) = a

\* ------------------------------------------------------------------------
\* Claims
\* ------------------------------------------------------------------------

\* C1: every document the pipeline hands on is complete: a non-null
\* modifiedLatex returned by the chat route, and a document Chat hands to
\* onLatexUpdate, has a document class, a body start and a body end after it.
C1_HandedDocumentsComplete ==
    /\ (rRes.status = 200 /\ rRes.data.modifiedLatex \notin {JNull, Undef})
          => (IsDocValue(rRes.data.modifiedLatex)
              /\ IsComplete(rRes.data.modifiedLatex.s))
    /\ ev.update # Undef => IsComplete(ev.update.s)

\* C2: fragment rejection: when the parsed record has hasChanges true and a
\* modifiedLatex without a document class, the route returns modifiedLatex
\* null, and Chat does not replace the editor document by such a fragment.
C2_FragmentRejected ==
    /\ (/\ RecordObtained
        /\ Get(Extracted.rec, KHasChanges) = JBool(TRUE)
        /\ IsDocValue(Get(Extracted.rec, KModifiedLatex))
        /\ ~HasDocClass(Get(Extracted.rec, KModifiedLatex).s))
          => rRes.data.modifiedLatex = JNull
    /\ ev.update # Undef => HasDocClass(ev.update.s)

\* C3: idempotence: a candidate that equals the document of the request after
\* trimming both is never returned by the route as the document to apply, is
\* never handed to onLatexUpdate and never compiled.
C3_UnchangedCandidateIsNoOp ==
    /\ (/\ RecordObtained
        /\ IsDocValue(Get(Extracted.rec, KModifiedLatex))
        /\ Trim(Get(Extracted.rec, KModifiedLatex).s) = Trim(rReq.latexContent.s))
          => ~IsDocValue(rRes.data.modifiedLatex)
    /\ ev.update # Undef => Trim(ev.update.s) # Trim(ev.snapshot)
    /\ ev.compile # Undef => Trim(ev.compile.s) # Trim(ev.snapshot)

\* C4: self-report override: whenever the route obtains a record with
\* hasChanges false and a modifiedLatex that is complete and differs from the
\* current document, it returns that modifiedLatex.
C4_SelfReportOverridden ==
    (/\ RecordObtained
     /\ Get(Extracted.rec, KHasChanges) = JBool(FALSE)
     /\ IsDocValue(Get(Extracted.rec, KModifiedLatex))
     /\ IsComplete(Get(Extracted.rec, KModifiedLatex).s)
     /\ Trim(Get(Extracted.rec, KModifiedLatex).s) # Trim(rReq.latexContent.s))
        => rRes.data.modifiedLatex = Get(Extracted.rec, KModifiedLatex)

\* C5: at most one request to /api/chat is in flight at any time.
C5_AtMostOneInFlight == Len(calls) <= 1

\* C6: a request started by handleRetry carries the content of the most
\* recent user turn and the document that is in the editor when the retry
\* starts.
C6_RetrySendsCurrentDocument ==
    [][(Len(calls') = Len(calls) + 1 /\ calls'[Len(calls')].kind = "retry")
        => /\ calls'[Len(calls')].body.latexContent = JStr(latex)
           /\ calls'[Len(calls')].body.message
                 = JStr(LastUserMessage(messages).content)]_vars

\* C6 witness: the last request failed, the document was changed since it was
\* sent, and a retry is in flight with the document as it is now.
C6_RetryAfterDocumentChanged ==
    /\ Len(calls) = 1
    /\ calls[1].kind = "retry"
    /\ calls[1].messages = messages
    /\ lastFailed \notin {Undef, JStr(latex)}
    /\ calls[1].body.latexContent = JStr(latex)

\* C7: on every error path of a request, of handleSubmit or of handleRetry,
\* the document is unchanged and the transcript is the one before with one
\* assistant turn appended.
C7_ErrorAppendsOneTurn ==
    [][ev'.op \in {"submitRejected", "retryRejected"}
        => /\ latex' = latex
           /\ \E content \in {<<MsgTrouble>>, <<MsgAuth>>, <<MsgRate>>,
                              <<"Failed to generate response">>} :
                 messages' = Append(messages, Message("assistant", content))]_vars

\* C8: for a request sent while the mode is ask, Chat never calls
\* onLatexUpdate.
C8_AskNeverUpdates == ev.update # Undef => ev.mode # "ask"

\* C9: Chat calls onLatexUpdate with the modifiedLatex of a response only
\* when that response has success true.
C9_UpdateOnlyOnSuccess == ev.update # Undef => ev.success

\* C10: every update of the transcript extends it: the transcript before is
\* a prefix of the transcript after.
C10_TranscriptAppendOnly == [][IsPrefix(messages, messages')]_vars

\* A parse of s that yields an object.
ParsesRecord(s) == JSONparse(s).ok /\ JSONparse(s).val.t = "obj"

\* None of the three parse steps of the agent branch yields an object for the
\* raw text of this request.
NoStepParses ==
    LET cleanedText == CleanText(rLlm.text)
        jsonString == JsonString(cleanedText)
    IN  /\ ~ParsesRecord(jsonString)
        /\ ~ParsesRecord(SafeJson(jsonString))
        /\ ~ParsesRecord(cleanedText)

\* No parse step succeeds at all.
NoStepSucceeds ==
    LET cleanedText == CleanText(rLlm.text)
        jsonString == JsonString(cleanedText)
    IN  /\ ~JSONparse(jsonString).ok
        /\ ~JSONparse(SafeJson(jsonString)).ok
        /\ ~JSONparse(cleanedText).ok

\* C11: for a raw text from which no step parses a structured record the
\* route answers 200 with success true and without a document; when no parse
\* succeeds at all the answer is the fallback (the raw text as response and
\* the rephrase message as explanation); and Chat, whatever its mode, hands
\* nothing of this answer to onLatexUpdate.
C11_UnparseableFallsBack ==
    (AgentAnswered /\ NoStepParses)
        => /\ rRes.data.success = JBool(TRUE)
           /\ rRes.data.modifiedLatex \in {Undef, JNull}
           /\ rRes.data.error = Undef
           /\ NoStepSucceeds =>
                 /\ rRes.data.response = JStr(rLlm.text)
                 /\ rRes.data.explanation = JStr(<<MsgRephrase>>)
           /\ \A m \in {"ask", "edit"} :
                 /\ SubmitApply(rRes.data, rReq.latexContent.s, m).update = Undef
                 /\ RetryApply(rRes.data, rReq.latexContent.s, m).update = Undef

\* C11 witness: the route answered a text that holds braces and from which
\* nothing can be parsed.
C11_FallbackAnswered ==
    /\ AgentAnswered
    /\ NoStepSucceeds
    /\ JsonString(CleanText(rLlm.text)) # <<>>
    /\ rRes.data.response = JStr(rLlm.text)

\* The brace slice of the raw text of this request.
RawSlice == JsonString(CleanText(rLlm.text))

\* The documents whose text, put raw between quotes, is wrong JSON only by
\* its backslashes: no quote and no control character in them.
BackslashOnlyDocs ==
    {d \in Docs : \A i \in 1..Len(d) : d[i] \notin ControlChars \cup {Q}}

\* The records the model meant when it answered the brace slice with the
\* document put in raw: the same fields with the document properly escaped.
MeantRecords ==
    {JSONparse(RecordText(StrLit(<<"Done">>, TRUE), StrLit(d, TRUE), h)).val :
        d \in {x \in BackslashOnlyDocs :
                  \E hh \in HasChangesLits :
                     RawSlice = RecordText(StrLit(<<"Done">>, TRUE), StrLit(x, FALSE), hh)},
        h \in {hh \in HasChangesLits :
                  \E x \in BackslashOnlyDocs :
                     RawSlice = RecordText(StrLit(<<"Done">>, TRUE), StrLit(x, FALSE), hh)}}

\* C12: when the brace slice holds a record whose document was put in with
\* its backslashes unescaped, so that the direct parse fails, the parse after
\* the repair succeeds and yields the record that was meant, and the route
\* answers from it.
C12_BackslashRepairRecovers ==
    (AgentAnswered /\ MeantRecords # {} /\ ~JSONparse(RawSlice).ok)
        => /\ JSONparse(SafeJson(RawSlice)).ok
           /\ JSONparse(SafeJson(RawSlice)).val \in MeantRecords
           /\ Extracted.path = "sanitized"

\* The raw text of this request is a fenced code block.
IsFenced(text) ==
    /\ Len(text) >= 4
    /\ text[1] \in {FenceJson, Fence}
    /\ text[2] = NL
    /\ text[Len(text) - 1] = NL
    /\ text[Len(text)] = Fence

\* What the fenced block holds.
Unfenced(text) == Slice(text, 3, Len(text) - 2)

\* Valid structured JSON: an object whose explanation, when it has one, is a
\* string, whose modifiedLatex is a string, null or absent and whose
\* hasChanges is a boolean or absent.
ValidStructured(s) ==
    /\ ParsesRecord(s)
    /\ Get(JSONparse(s).val, KExplanation).t \in {"str", "undef"}
    /\ Get(JSONparse(s).val, KModifiedLatex).t \in {"str", "null", "undef"}
    /\ Get(JSONparse(s).val, KHasChanges).t \in {"bool", "undef"}

\* C13: for a raw text that is a fenced code block around valid structured
\* JSON the route answers with the explanation and the document it answers
\* with for the same JSON without the fence.
C13_FencedLikeUnfenced ==
    (AgentAnswered /\ IsFenced(rLlm.text) /\ ValidStructured(Unfenced(rLlm.text)))
        => LET plain == AgentExtract(Unfenced(rLlm.text), rReq.latexContent).body
           IN  /\ rRes.data.explanation = plain.explanation
               /\ rRes.data.modifiedLatex = plain.modifiedLatex

\* C14: when the raw text is valid structured output with hasChanges false
\* and no document field, the route returns modifiedLatex null and the
\* explanation of that output, unaltered, as explanation and as response.
C14_NoOpKeepsExplanation ==
    (/\ AgentAnswered
     /\ ValidStructured(rLlm.text)
     /\ Get(JSONparse(rLlm.text).val, KHasChanges) = JBool(FALSE)
     /\ Get(JSONparse(rLlm.text).val, KModifiedLatex) = Undef
     /\ Get(JSONparse(rLlm.text).val, KExplanation).t = "str")
        => /\ rRes.data.modifiedLatex = JNull
           /\ rRes.data.explanation = Get(JSONparse(rLlm.text).val, KExplanation)
           /\ rRes.data.response = Get(JSONparse(rLlm.text).val, KExplanation)

\* C15: a store operation leaves every row that does not belong to the
\* session user as it is, returns rows of the session user only, and without
\* a session changes nothing and returns nothing.
C15_StoreScopedToSession ==
    [][/\ \A id \in 1..Len(resumes) :
            resumes[id].owner # last'.who => resumes'[id] = resumes[id]
       /\ \A id \in last'.returned :
            ~resumes'[id].deleted /\ resumes'[id].owner = last'.who
       /\ last'.who = NoUser =>
            /\ resumes' = resumes
            /\ files' = files
            /\ last'.returned = {}
            /\ ~last'.ok]_vars

\* C15 witness: a signed-in user asked for the row of another user to be
\* updated or deleted, or to be returned, and the operation did nothing.
C15_ForeignIdRefused ==
    /\ last.op \in {"updateResume", "deleteResume", "getResumeById", "PUT"}
    /\ last.who \in Users
    /\ last.id \in 1..Len(resumes)
    /\ ~resumes[last.id].deleted
    /\ resumes[last.id].owner \in Users \ {last.who}
    /\ ~last.ok
    /\ last.returned = {}

\* A handler finished in this step, and every handler that may be the one
\* that finished belongs to a Chat instance that was unmounted.
AbandonedFinished ==
    /\ ev'.op # ""
    /\ \A i \in 1..Len(calls) : calls' = Without(calls, i) => ~calls[i].live

\* C16: when the request of a handler whose Chat instance was unmounted
\* completes, the editor document is left as it is.
C16_AbandonedResultNotApplied ==
    [][AbandonedFinished => latex' = latex]_vars

\* C17: the mode changes only in a step of the mode buttons.
C17_ModeChangesOnlyByUser ==
    [][mode' # mode => \E m \in {"ask", "edit"} : SetMode(m)]_vars

\* C18: a step of the mode buttons leaves the transcript and the document
\* unchanged.
C18_ModeSwitchKeepsSession ==
    [][(\E m \in {"ask", "edit"} : SetMode(m))
          => messages' = messages /\ latex' = latex]_vars

\* C18 witness: a retry that was started in ask mode by the mounted Chat is
\* still in flight, nothing was added to the transcript since, and the mode is
\* edit now: the mode was switched over a transcript of several turns.
C18_SwitchedOverTranscript ==
    /\ Len(calls) = 1
    /\ calls[1].kind = "retry"
    /\ calls[1].live
    /\ calls[1].mode = "ask"
    /\ calls[1].messages = messages
    /\ Len(messages) >= 3
    /\ mode = "edit"
    /\ latex # DocSeed

\* The successful responses that carry an explanation and no document.
NoOpReplies ==
    {reply \in ChatReplies :
        /\ reply.status = 200
        /\ Truthy(reply.data.success)
        /\ Truthy(reply.data.explanation)
        /\ ~Truthy(reply.data.modifiedLatex)}

\* C19: when handleSubmit reads a successful response without a document,
\* the editor document stays as it is, onCompile is not called, and the
\* transcript becomes the one the request started from with the user turn and
\* one assistant turn holding the explanation appended.
C19_NoOpTransition ==
    [][ev'.op = "submitResolved" =>
         \A i \in 1..Len(calls) : \A reply \in NoOpReplies :
            SubmitResolved(i, reply)
               => /\ latex' = latex
                  /\ ev'.update = Undef
                  /\ ev'.compile = Undef
                  /\ messages' = calls[i].messages \o
                        <<calls[i].userMessage,
                          Message("assistant", reply.data.explanation.s)>>]_vars

\* C19 witness: a submission ended without a document being applied or
\* compiled; the transcript holds the greeting, the user turn and the
\* explanation.
C19_AnsweredWithoutDocument ==
    /\ ev.op = "submitResolved"
    /\ ev.update = Undef
    /\ ev.compile = Undef
    /\ Len(messages) = 3
    /\ messages[2].role = "user"
    /\ messages[3] = Message("assistant", <<"Done">>)
    /\ latex = DocSeedNl
    /\ calls = <<>>

\* C20: whenever Chat hands a document to onLatexUpdate it calls onCompile
\* in the same step, and what is compiled is that document.
C20_CompileFollowsApply ==
    ev.update # Undef
        => /\ ev.compile # Undef
           /\ ContentToCompile(ev.compile, latex) = ev.update.s

\* The markers of the exceptions of the language-model call.
LlmErrors == {"API_KEY_INVALID", "QUOTA_EXCEEDED", "UNAVAILABLE"}

\* What the route answers to the request of a handler when the
\* language-model call throws an exception with marker e.
FailedCallReply(c, e) == ChatRouteReply(c.body, TRUE, LlmThrows(e))

C22_RawTextShownOnExtractionFailure ==
    (AgentAnswered /\ Extracted.path = "fallback")
        => /\ rRes.data.success = JBool(TRUE)
           /\ SubmitContent(rRes.data) = rLlm.text

\* The message of this request is missing, empty or not a string.
BadMessage == rReq.message \in {Undef, JStr(<<>>)} \/ rReq.message.t # "str"

\* C23: a call of handleSubmit while the trimmed input is empty starts no
\* request and leaves the transcript and the document as they are; and the
\* route answers a request whose message is missing, empty or not a string
\* with 400, whatever the language model would do, without reaching the call
\* of the language model.
C23_EmptyInstructionRejected ==
    /\ [][HandleSubmitIgnored
            => /\ calls' = calls
               /\ messages' = messages
               /\ latex' = latex]_vars
    /\ []((BadMessage /\ rRes # NoReply)
            => /\ rRes.status = 400
               /\ ~ChatRouteCallsLlm(rReq, rKey)
               /\ \A llm \in FewOutcomes : ChatRouteReply(rReq, rKey, llm) = rRes)

\* C23 witness: the route answered a message that is a number, and
\* handleSubmit was called on an input of blanks only.
C23_BlankSubmitAndNumberMessage ==
    /\ rReq.message.t = "num"
    /\ rKey
    /\ rRes.status = 400
    /\ ev.op = "submitIgnored"
    /\ input = <<Sp>>
    /\ calls = <<>>

\* The lines of ctx are the last n turns of transcript, in its order.
IsRecentWindow(ctx, transcript, n) ==
    /\ Len(ctx) = IF Len(transcript) < n THEN Len(transcript) ELSE n
    /\ \A k \in 1..Len(ctx) :
          LET turn == transcript[Len(transcript) - Len(ctx) + k]
          IN  /\ ctx[k].content = turn.content
              /\ ctx[k].speaker = "User" <=> turn.role = "user"

\* C24: the request a handler sends, for submit and for retry, makes the
\* route build its conversation context from the 10 most recent turns of the
\* transcript as it is once the request is sent (all turns when there are
\* fewer), in the order of the transcript; and the transcript itself loses no
\* turn when the request is sent.
C24_HistoryIsRecentWindow ==
    [][(StartSubmit \/ StartRetry)
        => /\ IsRecentWindow(
                 ConversationContext(calls'[Len(calls')].body.conversationHistory),
                 messages', 10)
           /\ IsPrefix(messages, messages')]_vars

\* C24 witness: a request was sent on a transcript of more than 10 turns, and
\* the route received it: turns are missing from the payload and present in
\* the transcript.
C24_OlderTurnsDropped ==
    /\ Len(calls) = 1
    /\ calls[1].kind = "submit"
    /\ rReq = calls[1].body
    /\ Len(messages) > 10
    /\ Len(ConversationContext(rReq.conversationHistory)) = 10
    /\ messages[1] = Greeting

\* C25: whenever a request is running for the mounted Chat (isLoading or
\* retrying is set), the session is idle again later (both are false),
\* given that every network call completes or fails.
C25_ReturnsToIdle ==
    (isLoading \/ retrying) ~> (~isLoading /\ ~retrying)

\* C25 witness: a retry failed and the session is idle again on the Chat tab.
C25_IdleAfterFailedRetry ==
    /\ ev.op = "retryRejected"
    /\ activeTab = "chat"
    /\ ~isLoading
    /\ ~retrying
    /\ calls = <<>>

\* C26: whenever a handler hands a document to onLatexUpdate, the editor
\* document it replaces is the one the handler sent with its request.
C26_AppliedOverSnapshot ==
    [][ev'.update # Undef => latex = ev'.snapshot]_vars

\* The records the parse steps of the agent branch obtain from the raw text
\* of this request.
ParsedRecords ==
    {p.val : p \in {q \in {JSONparse(RawSlice), JSONparse(SafeJson(RawSlice)),
                             JSONparse(CleanText(rLlm.text))} :
                       q.ok /\ q.val.t = "obj"}}

\* C27: for every record parsed from the raw text for which both rules
\* return, the rule of the slice parse and of the sanitized parse (one rule,
\* written twice) and the rule of the whole-text parse return the same
\* explanation and the same document or null.
C27_ParsePathsAgree ==
    AgentAnswered
        => \A rec \in ParsedRecords :
              (/\ SliceDecision(rec, rReq.latexContent).kind = "return"
               /\ DirectDecision(rec).kind = "return")
                 => SliceDecision(rec, rReq.latexContent).body = DirectDecision(rec).body

\* C29: a PUT /api/update-resume that does not answer success leaves the
\* resume table and the files of the uploads directory as they were.
C29_FailedUpdateChangesNothing ==
    [][(last'.op = "PUT" /\ ~last'.ok)
        => resumes' = resumes /\ files' = files]_vars

\* C28: once handleSave has succeeded for a session that had no
\* currentResumeId, every later handleSave and every auto-update after a
\* compile sends its request to update-resume with the id that first save
\* returned, and no request goes to save-resume again.
C28_OneRecordPerSession ==
    [][(firstSaved # 0 /\ (HandleSave \/ \E j \in 1..Len(jobs) : CompileSucceeded(j)))
         => /\ step'.url # "save-resume"
            /\ step'.url = "update-resume" => step'.id = firstSaved
            /\ HandleSave => step'.url = "update-resume"]_vars

\* A first save succeeded and a later compile sent its auto-update with the
\* id of that save.
C28_AutoUpdateAfterFirstSave ==
    /\ firstSaved # 0
    /\ step.op = "compileOk"
    /\ step.url = "update-resume"
    /\ step.id = firstSaved

\* C30: a failed compilation leaves the preview pdfUrl and the stored
\* resumes as they were and sends nothing; pdfUrl changes only when a compile
\* call succeeded; the auto-update request is sent only then, only with a
\* resume id and a title that is not blank, and carries the content that was
\* compiled together with the PDF now shown.
C30_FailedCompileChangesNothing ==
    [][/\ (\E j \in 1..Len(jobs) : CompileFailed(j))
           => /\ editor'.pdfUrl = editor.pdfUrl
              /\ resumes' = resumes
              /\ files' = files
              /\ step'.url = ""
       /\ editor'.pdfUrl # editor.pdfUrl
           => \E j \in 1..Len(jobs) : CompileSucceeded(j)
       /\ (step'.op = "compileOk" /\ step'.url # "" /\ step' # step)
           => /\ \E j \in 1..Len(jobs) : CompileSucceeded(j)
              /\ step'.url = "update-resume"
              /\ step'.id # 0
              /\ step'.id = editor.currentResumeId
              /\ Trim(step'.title) # <<>>
              /\ step'.content = editor'.pdfUrl.content
              /\ step'.pdf = editor'.pdfUrl]_vars

\* A compile failed in a session that shows a PDF of a saved resume with a
\* title: had it succeeded, the auto-update would have been sent.
C30_CompileFailedOnSavedResume ==
    /\ step.op = "compileFailed"
    /\ editor.pdfUrl # NoPdf
    /\ editor.currentResumeId # 0
    /\ Trim(editor.resumeTitle) # <<>>
    /\ Len(resumes) > 0
====
